---- MODULE Spec2Model ----
(***************************************************************************)
(* A model of the e-commerce backend of src/main.py and src/schemas.py:    *)
(* the route handlers seed_products, list_products, get_product and        *)
(* create_order, the document store they read and write, and the double    *)
(* precision arithmetic of the order totals.                               *)
(***************************************************************************)
EXTENDS Integers, Sequences, FiniteSets

(***************************************************************************)
(* Natural numbers of any size: little-endian sequences of 15-bit limbs    *)
(* with no leading zero limb (<<>> is 0).  They carry the 53-bit           *)
(* significands of Python's floats and the exact products and sums that    *)
(* are rounded back to 53 bits.                                            *)
(***************************************************************************)
RECURSIVE IntBitLen(_)
IntBitLen(n) == IF n = 0 THEN 0 ELSE 1 + IntBitLen(n \div 2)

Limb == 2^15
LimbBits == IntBitLen(Limb - 1)

RECURSIVE BFromInt(_)
BFromInt(n) == IF n = 0 THEN <<>> ELSE <<n % Limb>> \o BFromInt(n \div Limb)

RECURSIVE BToInt(_)
BToInt(a) == IF a = <<>> THEN 0 ELSE a[1] + Limb * BToInt(Tail(a))

RECURSIVE BTrim(_)
BTrim(a) ==
  IF a = <<>> THEN <<>>
  ELSE IF a[Len(a)] = 0 THEN BTrim(SubSeq(a, 1, Len(a) - 1))
  ELSE a

RECURSIVE BAddC(_, _, _)
BAddC(a, b, c) ==
  IF a = <<>> /\ b = <<>> THEN (IF c = 0 THEN <<>> ELSE <<c>>)
  ELSE LET x == IF a = <<>> THEN 0 ELSE a[1]
           y == IF b = <<>> THEN 0 ELSE b[1]
           s == x + y + c
       IN  <<s % Limb>> \o BAddC(IF a = <<>> THEN <<>> ELSE Tail(a),
                                 IF b = <<>> THEN <<>> ELSE Tail(b),
                                 s \div Limb)

BAdd(a, b) == BAddC(a, b, 0)

RECURSIVE BMulSmallC(_, _, _)
BMulSmallC(a, k, c) ==
  IF a = <<>> THEN (IF c = 0 THEN <<>> ELSE <<c>>)
  ELSE LET p == a[1] * k + c
       IN  <<p % Limb>> \o BMulSmallC(Tail(a), k, p \div Limb)

\* a * k for 0 <= k < Limb
BMulSmall(a, k) == IF k = 0 THEN <<>> ELSE BMulSmallC(a, k, 0)

BShlLimbs(a, n) == IF a = <<>> THEN <<>> ELSE [i \in 1..n |-> 0] \o a

RECURSIVE BMul(_, _)
BMul(a, b) ==
  IF a = <<>> \/ b = <<>> THEN <<>>
  ELSE BAdd(BMulSmall(a, b[1]), BShlLimbs(BMul(a, Tail(b)), 1))

\* a * 2^n
BShl(a, n) == BShlLimbs(BMulSmall(a, 2^(n % LimbBits)), n \div LimbBits)

\* the quotient and remainder of a by d, 0 < d < Limb; i runs from the top limb
RECURSIVE BDivSmallR(_, _, _, _)
BDivSmallR(a, d, i, r) ==
  IF i = 0 THEN [q |-> <<>>, r |-> r]
  ELSE LET cur  == r * Limb + a[i]
           rest == BDivSmallR(a, d, i - 1, cur % d)
       IN  [q |-> rest.q \o <<cur \div d>>, r |-> rest.r]

BDivSmall(a, d) ==
  LET res == BDivSmallR(a, d, Len(a), 0) IN [q |-> BTrim(res.q), r |-> res.r]

BDropLimbs(a, n) == IF n >= Len(a) THEN <<>> ELSE SubSeq(a, n + 1, Len(a))

\* floor(a / 2^n)
BShr(a, n) == BDivSmall(BDropLimbs(a, n \div LimbBits), 2^(n % LimbBits)).q

\* a mod 2^n = 0
BLowZero(a, n) ==
  /\ \A i \in 1..(n \div LimbBits) : i > Len(a) \/ a[i] = 0
  /\ BDivSmall(BDropLimbs(a, n \div LimbBits), 2^(n % LimbBits)).r = 0

\* bit n (from 0) of a
BBit(a, n) ==
  LET i == n \div LimbBits + 1
  IN  IF i > Len(a) THEN 0 ELSE (a[i] \div 2^(n % LimbBits)) % 2

BBitLen(a) == IF a = <<>> THEN 0 ELSE LimbBits * (Len(a) - 1) + IntBitLen(a[Len(a)])

\* (a * 2^-sh, plus a nonzero tail below a when sticky) rounded to the nearest
\* integer, ties to even
RoundShr(a, sh, sticky) ==
  IF sh = 0 THEN a
  ELSE LET q    == BShr(a, sh)
           half == BBit(a, sh - 1) = 1
           rest == sticky \/ ~BLowZero(a, sh - 1)
           odd  == BBit(q, 0) = 1
       IN  IF half /\ (rest \/ odd) THEN BAdd(q, <<1>>) ELSE q

(***************************************************************************)
(* Python floats: IEEE 754 binary64 values >= 0, [m, e] standing for       *)
(* m * 2^e with m of exactly SigBits bits, or m = <<>> for zero.  Every    *)
(* operation computes the exact result and rounds it to the nearest        *)
(* double, ties to even.  The amounts of the model are far from the        *)
(* subnormal and the overflow range.                                       *)
(***************************************************************************)
SigBits == 53

FZero == [m |-> <<>>, e |-> 0]

\* the double nearest to n * 2^e (sticky: a nonzero tail lies below n)
FRound(n, e, sticky) ==
  IF n = <<>> THEN FZero
  ELSE LET len == BBitLen(n)
       IN  IF len <= SigBits
           THEN [m |-> BShl(n, SigBits - len), e |-> e - (SigBits - len)]
           ELSE LET sh == len - SigBits
                    q  == RoundShr(n, sh, sticky)
                IN  IF BBitLen(q) > SigBits
                    THEN [m |-> BShr(q, 1), e |-> e + sh + 1]
                    ELSE [m |-> q, e |-> e + sh]

\* the double a decimal literal k / 10^d parses to (k >= 0, 10^d < Limb)
GuardBits == SigBits + LimbBits + 2
FromDecimal(k, d) ==
  LET dv == BDivSmall(BShl(BFromInt(k), GuardBits), 10^d)
  IN  FRound(dv.q, 0 - GuardBits, dv.r # 0)

FromInt(i) == FRound(BFromInt(i), 0, FALSE)

FMul(a, b) == FRound(BMul(a.m, b.m), a.e + b.e, FALSE)

FAdd(a, b) ==
  IF a.m = <<>> THEN b
  ELSE IF b.m = <<>> THEN a
  ELSE LET lo == IF a.e < b.e THEN a.e ELSE b.e
       IN  FRound(BAdd(BShl(a.m, a.e - lo), BShl(b.m, b.e - lo)), lo, FALSE)

\* round(x, 2) in hundredths: the integer nearest to x * 100, ties to even,
\* taken on the exact binary value of x
RoundCents(x) ==
  LET n == BMulSmall(x.m, 100)
  IN  BToInt(IF x.e >= 0 THEN BShl(n, x.e) ELSE RoundShr(n, 0 - x.e, FALSE))

\* Python's round(x, 2): the double nearest to the correctly rounded
\* two-decimal string of x
PyRound2(x) == FromDecimal(RoundCents(x), 2)

(***************************************************************************)
(* Bounds of the model.                                                    *)
(***************************************************************************)
\* requests the server handles in one behaviour, numbered in arrival order
MaxReqs == 3
\* items of an order request, and the largest quantity of an item
MaxItems == 2
MaxQty == 3

Reqs == 1..MaxReqs

(***************************************************************************)
(* Object ids.  A string is a sequence of characters; an ObjectId is its   *)
(* bytes, written as hexadecimal digit values: 24 of them for the 12 bytes *)
(* of a generated id.                                                      *)
(***************************************************************************)
HexLower == <<"0", "1", "2", "3", "4", "5", "6", "7", "8", "9",
              "a", "b", "c", "d", "e", "f">>
HexUpper == <<"0", "1", "2", "3", "4", "5", "6", "7", "8", "9",
              "A", "B", "C", "D", "E", "F">>

IsHexChar(c) == \E v \in 1..16 : HexLower[v] = c \/ HexUpper[v] = c
HexVal(c) == (CHOOSE v \in 1..16 : HexLower[v] = c \/ HexUpper[v] = c) - 1

\* the six characters of Py_ISSPACE; the fourth is the vertical tab (0x0B),
\* which has no escape and stands in the string as itself
Whitespace == {" ", "\t", "\n", "", "\f", "\r"}
\* bytes.fromhex(str): white space is skipped before each byte, and a byte
\* is two adjacent hexadecimal characters; anything else is a ValueError
RECURSIVE fromhex(_)
fromhex(str) ==
  IF str = <<>> THEN [ok |-> TRUE, digits |-> <<>>]
  ELSE IF str[1] \in Whitespace THEN fromhex(Tail(str))
  ELSE IF Len(str) >= 2 /\ IsHexChar(str[1]) /\ IsHexChar(str[2])
  THEN LET rest == fromhex(Tail(Tail(str)))
       IN  [ok |-> rest.ok,
            digits |-> <<HexVal(str[1]), HexVal(str[2])>> \o rest.digits]
  ELSE [ok |-> FALSE, digits |-> <<>>]

\* ObjectId(str) does not raise: str has 24 characters and bytes.fromhex
\* takes it.  The white space fromhex skips counts in the 24.
ObjectIdValid(str) == Len(str) = 24 /\ fromhex(str).ok
\* ObjectId(str), for a valid str: 24 digits, fewer when white space was skipped
ObjectId(str) == fromhex(str).digits
\* str(oid): lower-case hexadecimal
StrOfObjectId(oid) == [i \in 1..Len(oid) |-> HexLower[oid[i] + 1]]
\* The 12 bytes the driver's encoder writes for an ObjectId that holds fewer:
\* it copies 12 bytes from the start of the bytes object, so the object's
\* terminating zero byte follows the id and whatever memory holds comes next.
OnTheWire(oid) ==
  IF Len(oid) = 24 THEN {oid}
  ELSE {oid \o <<0, 0>> \o [i \in 1..(22 - Len(oid)) |-> pad[i]] :
          pad \in [1..(22 - Len(oid)) -> 0..15]}

\* The id the driver generates for the n-th document that request r inserts:
\* ids are unique per insert, which is all the handlers rely on.
NewObjectId(r, n) == [i \in 1..24 |-> IF i = 23 THEN r ELSE IF i = 24 THEN n ELSE 0]

(***************************************************************************)
(* The sample products of seed_products.                                   *)
(***************************************************************************)
samples ==
  << [title |-> "Classic Tee", description |-> "Soft cotton tee",
      price |-> FromDecimal(1999, 2), category |-> "Apparel",
      image |-> "https://images.unsplash.com/photo-1521572163474-6864f9cf17ab",
      in_stock |-> TRUE],
     [title |-> "Ceramic Mug", description |-> "Matte finish, 350ml",
      price |-> FromDecimal(125, 1), category |-> "Home",
      image |-> "https://images.unsplash.com/photo-1503602642458-232111445657",
      in_stock |-> TRUE],
     [title |-> "Leather Journal", description |-> "A5 dotted pages",
      price |-> FromDecimal(240, 1), category |-> "Stationery",
      image |-> "https://images.unsplash.com/photo-1519682337058-a94d519337bc",
      in_stock |-> TRUE],
     [title |-> "Desk Lamp", description |-> "Warm LED with dimmer",
      price |-> FromDecimal(390, 1), category |-> "Home",
      image |-> "https://images.unsplash.com/photo-1509228627152-72ae9ae6848d",
      in_stock |-> TRUE] >>

(***************************************************************************)
(* The document store.  A collection is a set of documents, each with its  *)
(* own _id; the store fixes no order of its own on them, and a query       *)
(* returns its matches as a sequence, here in _id order.                   *)
(***************************************************************************)
WithField(rec, f, v) == [k \in DOMAIN rec \cup {f} |-> IF k = f THEN v ELSE rec[k]]
WithoutField(rec, f) == [k \in DOMAIN rec \ {f} |-> rec[k]]

\* the digits of an id as one number per request and ordinal, for ordering
IdKey(oid) == oid[23] * 16 + oid[24]

RECURSIVE InIdOrder(_)
InIdOrder(docs) ==
  IF docs = {} THEN <<>>
  ELSE LET first == CHOOSE d \in docs : \A o \in docs : IdKey(d["_id"]) <= IdKey(o["_id"])
       IN  <<first>> \o InIdOrder(docs \ {first})

\* insert_one: the collection with data stored under a fresh _id
InsertOne(coll, data, oid) == coll \cup {WithField(data, "_id", oid)}

\* find with an equality filter: the documents that agree with filt on every
\* field of filt
Matches(doc, filt) == \A f \in DOMAIN filt : f \in DOMAIN doc /\ doc[f] = filt[f]
get_documents(coll, filt) == InIdOrder({d \in coll : Matches(d, filt)})

\* find_one({"_id": oid}): the document, or None
None == [none |-> TRUE]
find_one(coll, oid) ==
  IF \E d \in coll : d["_id"] = oid
  THEN CHOOSE d \in coll : d["_id"] = oid
  ELSE None

serialize_doc(doc) ==
  IF "_id" \in DOMAIN doc
  THEN WithField(WithoutField(doc, "_id"), "id", StrOfObjectId(doc["_id"]))
  ELSE doc

(***************************************************************************)
(* Requests.  An optional value is <<>> (absent) or <<v>>; a JSON number   *)
(* of a request body is written in thousandths (19990 is 19.99).           *)
(***************************************************************************)
Absent == <<>>
Given(v) == <<v>>

\* the JSON values a body may carry where the schema wants a str
JsonString(s) == <<"string", s>>
JsonNumber(n) == <<"number", n>>
JsonNull == <<"null">>
\* pydantic takes a str for a str field, and neither null nor a number
StrValid(v) == v[1] = "string"

\* Python truthiness of an Optional[str]: None and "" are false
Truthy(opt) == opt # Absent /\ opt[1] # ""

\* schemas.py: OrderItem(product_id, title, price >= 0, quantity >= 1)
OrderItemValid(item) ==
  /\ item.price >= 0
  /\ item.quantity >= 1

\* schemas.py: ShippingInfo; EmailStr wants a local part and a domain
ShippingInfoValid(sh) == sh.email.local # "" /\ sh.email.domain # ""

\* faulty variant: the Order schema with a lower bound of one item on its list
OrderValidNonEmpty(body) ==
  /\ Len(body.items) >= 1
  /\ \A i \in 1..Len(body.items) : OrderItemValid(body.items[i])
  /\ ShippingInfoValid(body.shipping)
  /\ \A f \in {"subtotal", "tax", "total"} : body[f] # Absent /\ body[f][1] >= 0
  /\ body.status # Absent => StrValid(body.status[1])

\* schemas.py: Order; subtotal, tax and total are required and >= 0, and
\* status (line 64, status: str = "pending") is a str when it is sent
OrderValid(body) ==
  /\ \A i \in 1..Len(body.items) : OrderItemValid(body.items[i])
  /\ ShippingInfoValid(body.shipping)
  /\ \A f \in {"subtotal", "tax", "total"} : body[f] # Absent /\ body[f][1] >= 0
  /\ body.status # Absent => StrValid(body.status[1])

\* the Order object pydantic builds from a valid body: numbers become floats
\* and an absent status takes its default
ParseOrder(body) ==
  [items    |-> [i \in 1..Len(body.items) |->
                   [product_id |-> body.items[i].product_id,
                    title      |-> body.items[i].title,
                    price      |-> FromDecimal(body.items[i].price, 3),
                    quantity   |-> body.items[i].quantity]],
   shipping |-> body.shipping,
   subtotal |-> FromDecimal(body.subtotal[1], 3),
   tax      |-> FromDecimal(body.tax[1], 3),
   total    |-> FromDecimal(body.total[1], 3),
   status   |-> IF body.status = Absent THEN "pending" ELSE body.status[1][2]]

(***************************************************************************)
(* create_order's arithmetic (main.py lines 72 to 74).                     *)
(***************************************************************************)
TaxRate == FromDecimal(1, 1)

\* sum(item.price * item.quantity for item in items), left to right from 0
RECURSIVE SumFrom(_, _)
SumFrom(items, acc) ==
  IF items = <<>> THEN acc
  ELSE SumFrom(Tail(items),
               FAdd(acc, FMul(items[1].price, FromInt(items[1].quantity))))

\* faulty variant: the tax taken on the rounded subtotal
TaxOfRounded(subtotal) == PyRound2(FMul(PyRound2(subtotal), TaxRate))
Subtotal(items) == SumFrom(items, FZero)
Tax(subtotal) == PyRound2(FMul(subtotal, TaxRate))
\* faulty variant: the total without the tax
TotalWithoutTax(subtotal, tax) == PyRound2(subtotal)
Total(subtotal, tax) == PyRound2(FAdd(subtotal, tax))

\* faulty variant: the update of line 76 without the status
OrderDataKeepsStatus(ord, subtotal, tax, total) ==
  [ord EXCEPT !.subtotal = PyRound2(subtotal), !.tax = tax, !.total = total]

\* lines 75 and 76: the dumped order with the server's values written over
\* the client's
OrderData(ord, subtotal, tax, total) ==
  [ord EXCEPT !.subtotal = PyRound2(subtotal), !.tax = tax, !.total = total,
              !.status = "pending"]

(***************************************************************************)
(* State.                                                                  *)
(***************************************************************************)
VARIABLES
  db,        \* TRUE: database.db is a handle; FALSE: it is None
  storeUp,   \* the server behind the handle answers (else every call raises)
  product,   \* the "product" collection
  order,     \* the "order" collection
  request,   \* request[r]: the r-th request, once received
  pc,        \* pc[r]: where the handler of request r stands
  local,     \* local[r]: the handler's local variables
  response   \* response[r]: the response sent

vars == <<db, storeUp, product, order, request, pc, local, response>>

NoRequest == [kind |-> "none"]
NoLocal == [at |-> "none"]
NoResponse == [code |-> 0]

HTTPException(code, detail) == [code |-> code, detail |-> detail]
\* an exception no handler catches: the framework answers 500
ServerError == [code |-> 500, detail |-> "Internal Server Error"]
\* a body the schema rejects: the framework answers 422
ValidationError == [code |-> 422, detail |-> "Unprocessable Entity"]

\* a call on the store succeeds
StoreAnswers == db /\ storeUp

Finish(r, resp) ==
  /\ pc' = [pc EXCEPT ![r] = "done"]
  /\ response' = [response EXCEPT ![r] = resp]

(***************************************************************************)
(* Inputs.                                                                 *)
(***************************************************************************)
Categories == {Absent, Given(""), Given("Home"), Given("Toys")}

UnknownId == [i \in 1..24 |-> "F"]
\* 22 digits, a space and a vertical tab
SpacedId == [i \in 1..24 |-> IF i <= 22 THEN "0" ELSE IF i = 23 THEN " " ELSE ""]
ProductIds ==
  { StrOfObjectId(NewObjectId(1, 1)),   \* the id of a product request 1 may seed
    UnknownId,                          \* well-formed, never generated
    SpacedId,                           \* 24 characters that make 11 bytes
    <<"t", "e", "e">> }                 \* malformed

ShippingOk ==
  [name |-> "Ada", email |-> [local |-> "ada", domain |-> "example.com"],
   address |-> "1 Main St", city |-> "Paris", country |-> "FR",
   postal_code |-> "75001"]
ShippingBadEmail == [ShippingOk EXCEPT !.email = [local |-> "ada", domain |-> ""]]

Item(price, quantity) ==
  [product_id |-> "p", title |-> "item", price |-> price, quantity |-> quantity]

\* the example of the specification: 19.99 x 2 and 12.50 x 1
ExampleItems == <<Item(19990, 2), Item(12500, 1)>>

\* what a client may send for subtotal, tax, total and status
ClientZero == [subtotal |-> Given(0), tax |-> Given(0), total |-> Given(0),
               status |-> Absent]
ClientPaid == [subtotal |-> Given(1000), tax |-> Given(0), total |-> Given(1000),
               status |-> Given(JsonString("paid"))]
ClientNegative == [ClientZero EXCEPT !.subtotal = Given(-1000)]
ClientMissing == [ClientZero EXCEPT !.total = Absent]
ClientNullStatus == [ClientPaid EXCEPT !.status = Given(JsonNull)]
ClientNumberStatus == [ClientPaid EXCEPT !.status = Given(JsonNumber(5))]

OrderBody(items, shipping, client) ==
  [items |-> items, shipping |-> shipping, subtotal |-> client.subtotal,
   tax |-> client.tax, total |-> client.total, status |-> client.status]

\* the order bodies of the interleaved runs
OrderBodies ==
  { OrderBody(<<>>, ShippingOk, ClientZero),
    OrderBody(ExampleItems, ShippingOk, ClientZero),
    OrderBody(ExampleItems, ShippingOk, ClientPaid),
    OrderBody(ExampleItems, ShippingOk, ClientNegative),
    OrderBody(ExampleItems, ShippingOk, ClientNullStatus) }

\* the prices and item sequences the arithmetic is checked on: amounts with
\* two and with three decimals, and ties at half a cent
Prices == {0, 49, 50, 12500, 19990}

RECURSIVE SeqsUpTo(_, _)
SeqsUpTo(S, n) ==
  IF n = 0 THEN {<<>>}
  ELSE LET shorter == SeqsUpTo(S, n - 1)
       IN  shorter \cup {Append(q, x) : q \in {t \in shorter : Len(t) = n - 1}, x \in S}

ItemChoices == {Item(price, quantity) : price \in Prices, quantity \in 1..MaxQty}
ItemSeqs == SeqsUpTo(ItemChoices, MaxItems)

(***************************************************************************)
(* A handler starts when its request arrives.  Requests are numbered in    *)
(* the order they arrive.                                                  *)
(***************************************************************************)
Arrives(r, rq) ==
  /\ pc[r] = "idle"
  /\ IF r = 1 THEN TRUE ELSE pc[r - 1] # "idle"
  /\ request' = [request EXCEPT ![r] = rq]

(***************************************************************************)
(* POST /seed (main.py lines 34 to 49): the check of lines 36 to 40, then  *)
(* one insert of the loop of lines 47 and 48 per step.                     *)
(***************************************************************************)
\* faulty variant: the check asks for all the samples
HasAllSamples(count) == count >= Len(samples)

\* line 39: the collection already holds products
HasProducts(count) == count > 0

SeedCheck(r) ==
  /\ Arrives(r, [kind |-> "seed"])
  /\ IF ~db
     THEN Finish(r, HTTPException(500, "Database not configured")) /\ UNCHANGED local
     ELSE IF ~storeUp
     THEN Finish(r, ServerError) /\ UNCHANGED local
     ELSE LET count == Cardinality(product)
          IN  IF HasProducts(count)
              THEN /\ Finish(r, [code |-> 200, message |-> "Products already exist",
                                 count |-> count])
                   /\ UNCHANGED local
              ELSE /\ pc' = [pc EXCEPT ![r] = "seeding"]
                   /\ local' = [local EXCEPT ![r] = [at |-> "seeding", i |-> 1]]
                   /\ UNCHANGED response
  /\ UNCHANGED <<db, storeUp, product, order>>

SeedInsert(r) ==
  /\ pc[r] = "seeding"
  /\ LET i == local[r].i
     IN  IF ~StoreAnswers
         THEN Finish(r, ServerError) /\ UNCHANGED <<product, local>>
         ELSE /\ product' = InsertOne(product, samples[i], NewObjectId(r, i))
              /\ IF i < Len(samples)
                 THEN /\ local' = [local EXCEPT ![r].i = i + 1]
                      /\ UNCHANGED <<pc, response>>
                 ELSE /\ Finish(r, [code |-> 200, message |-> "Seeded",
                                    count |-> Len(samples)])
                      /\ UNCHANGED local
  /\ UNCHANGED <<db, storeUp, order, request>>

(***************************************************************************)
(* GET /products (lines 51 to 55).                                         *)
(***************************************************************************)
\* faulty variant: the filter applied whenever a category is given, "" included
CategoryFilterIfGiven(category) ==
  IF category # Absent THEN [category |-> category[1]] ELSE <<>>

CategoryFilter(category) ==
  IF Truthy(category) THEN [category |-> category[1]] ELSE <<>>

list_products(r, category) ==
  /\ Arrives(r, [kind |-> "list", category |-> category])
  /\ LET filt == CategoryFilter(category)
         docs == get_documents(product, filt)
     IN  IF ~StoreAnswers
         THEN Finish(r, ServerError)
         ELSE Finish(r, [code |-> 200,
                         products |-> [i \in 1..Len(docs) |-> serialize_doc(docs[i])]])
  /\ UNCHANGED <<db, storeUp, product, order, local>>

(***************************************************************************)
(* GET /products/{product_id} (lines 57 to 67).  ObjectId(product_id) and  *)
(* find_one both run inside the try: whatever either raises becomes 400.   *)
(* An id of fewer than 12 bytes goes to the driver as it is: the driver    *)
(* either raises on the document it cannot send or looks up the 12 bytes   *)
(* its encoder wrote, so the handler has more than one possible response.  *)
(***************************************************************************)
\* lines 62 to 67 for the 12 bytes sent to the store
Lookup(oid) ==
  LET doc == find_one(product, oid)
  IN  IF doc = None
      THEN HTTPException(404, "Product not found")
      ELSE [code |-> 200, product |-> serialize_doc(doc)]

\* the responses of lines 61 to 67 for an id ObjectId() has taken
TryResponses(oid) ==
  IF Len(oid) = 24 THEN {Lookup(oid)}
  ELSE {HTTPException(400, "Invalid product id")}
         \cup {Lookup(sent) : sent \in OnTheWire(oid)}

\* faulty variant: the identifier parsed before the handle is looked at
GetProductResponseParsesFirst(product_id) ==
  IF ~ObjectIdValid(product_id)
  THEN {HTTPException(400, "Invalid product id")}
  ELSE IF ~db
  THEN {HTTPException(500, "Database not configured")}
  ELSE IF ~storeUp
  THEN {HTTPException(400, "Invalid product id")}
  ELSE TryResponses(ObjectId(product_id))

\* the responses get_product can give
GetProductResponse(product_id) ==
  IF ~db
  THEN {HTTPException(500, "Database not configured")}
  ELSE IF ~ObjectIdValid(product_id) \/ ~storeUp
  THEN {HTTPException(400, "Invalid product id")}
  ELSE TryResponses(ObjectId(product_id))

get_product(r, product_id) ==
  /\ Arrives(r, [kind |-> "get", product_id |-> product_id])
  /\ \E resp \in GetProductResponse(product_id) : Finish(r, resp)
  /\ UNCHANGED <<db, storeUp, product, order, local>>

(***************************************************************************)
(* POST /orders (lines 69 to 78): the body is validated and the totals are *)
(* computed on the handler's own data (lines 70 to 76); then the one call  *)
(* on the store and the response (lines 77 and 78).                        *)
(***************************************************************************)
CreateOrderCompute(r, body) ==
  /\ Arrives(r, [kind |-> "order", body |-> body])
  /\ IF ~OrderValid(body)
     THEN Finish(r, ValidationError) /\ UNCHANGED local
     ELSE LET ord      == ParseOrder(body)
              subtotal == Subtotal(ord.items)
              tax      == Tax(subtotal)
              total    == Total(subtotal, tax)
          IN  /\ local' = [local EXCEPT ![r] =
                             [at |-> "computed", subtotal |-> subtotal, tax |-> tax,
                              total |-> total,
                              data |-> OrderData(ord, subtotal, tax, total)]]
              /\ pc' = [pc EXCEPT ![r] = "computed"]
              /\ UNCHANGED response
  /\ UNCHANGED <<db, storeUp, product, order>>

\* faulty variant: the computed values kept in one place shared by all calls, which
\* holds those of the latest request that computed them
SharedLocals(r) ==
  local[CHOOSE q \in Reqs : pc[q] = "computed" /\ \A o \in Reqs : pc[o] = "computed" => o <= q]

\* subtotal, tax, total and data are variables of the handler's own call
Locals(r) == local[r]

CreateOrderInsert(r) ==
  /\ pc[r] = "computed"
  /\ IF ~StoreAnswers
     THEN Finish(r, ServerError) /\ UNCHANGED order
     ELSE LET oid == NewObjectId(r, 1)
              own == Locals(r)
          IN  /\ order' = InsertOne(order, own.data, oid)
              /\ Finish(r, [code |-> 200, id |-> StrOfObjectId(oid),
                            subtotal |-> PyRound2(own.subtotal),
                            tax |-> own.tax, total |-> own.total,
                            status |-> "pending"])
  /\ UNCHANGED <<db, storeUp, product, request, local>>

(***************************************************************************)
(* Specifications.  The process starts with empty collections, with or     *)
(* without a database handle, the server behind it reachable or not.       *)
(***************************************************************************)
Environment ==
  /\ db \in BOOLEAN
  /\ storeUp \in BOOLEAN
  /\ ~db => ~storeUp
  /\ product = {}
  /\ order = {}

Init ==
  /\ Environment
  /\ request = [r \in Reqs |-> NoRequest]
  /\ pc = [r \in Reqs |-> "idle"]
  /\ local = [r \in Reqs |-> NoLocal]
  /\ response = [r \in Reqs |-> NoResponse]

Next ==
  \E r \in Reqs :
    \/ SeedCheck(r)
    \/ SeedInsert(r)
    \/ \E category \in Categories : list_products(r, category)
    \/ \E product_id \in ProductIds : get_product(r, product_id)
    \/ \E body \in OrderBodies : CreateOrderCompute(r, body)
    \/ CreateOrderInsert(r)

Spec == Init /\ [][Next]_vars

\* One order request handled on its own: its items drawn from ItemSeqs, or
\* one of the bodies the schema rejects.
CalcBodies ==
  {OrderBody(items, ShippingOk, ClientPaid) : items \in ItemSeqs}
  \cup { OrderBody(ExampleItems, ShippingOk, ClientMissing),
         OrderBody(ExampleItems, ShippingBadEmail, ClientZero),
         OrderBody(ExampleItems, ShippingOk, ClientNullStatus),
         OrderBody(ExampleItems, ShippingOk, ClientNumberStatus),
         OrderBody(<<Item(39000, 0)>>, ShippingOk, ClientZero),
         OrderBody(<<Item(-10, 1)>>, ShippingOk, ClientZero) }

InitCalc ==
  /\ Environment
  /\ request \in {[r \in Reqs |-> IF r = 1 THEN [kind |-> "order", body |-> b]
                                  ELSE NoRequest] : b \in CalcBodies}
  /\ pc = [r \in Reqs |-> "idle"]
  /\ local = [r \in Reqs |-> NoLocal]
  /\ response = [r \in Reqs |-> NoResponse]

NextCalc == CreateOrderCompute(1, request[1].body) \/ CreateOrderInsert(1)

SpecCalc == InitCalc /\ [][NextCalc]_vars

(***************************************************************************)
(* Vocabulary of the properties.                                           *)
(***************************************************************************)
IsOrder(r) == request[r].kind = "order"
Answered(r) == pc[r] = "done"
\* request r is an order request the server accepted
Accepted(r) == IsOrder(r) /\ Answered(r) /\ response[r].code = 200

\* the order documents stored under the id returned to request r
DocsOf(r) == {d \in order : StrOfObjectId(d["_id"]) = response[r].id}

\* The sum of price x quantity over the first n items of a request body, in
\* floating point, unrounded.
RECURSIVE SumOfProducts(_, _)
SumOfProducts(items, n) ==
  IF n = 0 THEN FZero
  ELSE FAdd(SumOfProducts(items, n - 1),
            FMul(FromDecimal(items[n].price, 3), FromInt(items[n].quantity)))

Unrounded(r) == SumOfProducts(request[r].body.items, Len(request[r].body.items))

\* an amount of so many hundredths
Amount(cents) == FromDecimal(cents, 2)

Carries(rec, subtotal, tax, total) ==
  rec.subtotal = subtotal /\ rec.tax = tax /\ rec.total = total

\* C1: every accepted order request gets, in its response and in its stored
\* document, subtotal = round(U, 2), tax = round(U x 0.10, 2) and
\* total = round(U + tax, 2), U being the unrounded sum of price x quantity
\* over its items; the items 19.99 x 2 and 12.50 x 1 give 52.48, 5.25, 57.73.
C1_TotalsFromUnroundedSum ==
  \A r \in Reqs :
    Accepted(r) =>
      LET u   == Unrounded(r)
          tax == PyRound2(FMul(u, Amount(10)))
          tot == PyRound2(FAdd(u, tax))
      IN  /\ Carries(response[r], PyRound2(u), tax, tot)
          /\ DocsOf(r) # {}
          /\ \A d \in DocsOf(r) : Carries(d, PyRound2(u), tax, tot)
          /\ request[r].body.items = ExampleItems =>
               Carries(response[r], Amount(5248), Amount(525), Amount(5773))

C1_Witness ==
  /\ Accepted(1)
  /\ request[1].body.items = ExampleItems
  /\ response[1].total = Amount(5773)
  /\ \E d \in order : d.total = Amount(5773)

\* C8 as stated: the returned values are consistent with one another, tax =
\* round(returned subtotal x 0.1, 2) and total = round(returned subtotal +
\* returned tax, 2), for every accepted item sequence.
C8_ReturnedValuesConsistent ==
  \A r \in Reqs :
    Accepted(r) =>
      /\ response[r].tax = PyRound2(FMul(response[r].subtotal, Amount(10)))
      /\ response[r].total = PyRound2(FAdd(response[r].subtotal, response[r].tax))

RECURSIVE BLessFrom(_, _, _)
BLessFrom(a, b, i) ==
  IF i = 0 THEN FALSE
  ELSE IF a[i] # b[i] THEN a[i] < b[i]
  ELSE BLessFrom(a, b, i - 1)

\* a < b on significands of the same length
BLess(a, b) == BLessFrom(a, b, Len(a))

\* x < y
FLess(x, y) ==
  IF y.m = <<>> THEN FALSE
  ELSE IF x.m = <<>> THEN TRUE
  ELSE IF x.e # y.e THEN x.e < y.e
  ELSE BLess(x.m, y.m)

Apart(a, b) == IF a >= b THEN a - b ELSE b - a

\* C8, amended: tax and total come from the unrounded sum U.  They equal
\* round(returned subtotal x 0.1, 2) and round(returned subtotal + tax, 2)
\* when U is itself the returned two-decimal subtotal, and are within 0.01
\* of them for every accepted item sequence with U below 10^9.
C8_ConsistentWithinOneCent ==
  \A r \in Reqs :
    Accepted(r) /\ FLess(Unrounded(r), FromInt(10^9)) =>
      LET sub   == response[r].subtotal
          tax2  == PyRound2(FMul(sub, Amount(10)))
          tot2  == PyRound2(FAdd(sub, response[r].tax))
      IN  /\ sub = PyRound2(Unrounded(r))
          /\ Apart(RoundCents(response[r].tax), RoundCents(tax2)) <= 1
          /\ Apart(RoundCents(response[r].total), RoundCents(tot2)) <= 1
          /\ Unrounded(r) = sub => response[r].tax = tax2 /\ response[r].total = tot2

\* an accepted order whose returned tax is not round(returned subtotal x 0.1, 2)
C8_Witness ==
  /\ Accepted(1)
  /\ Unrounded(1) # response[1].subtotal
  /\ response[1].tax # PyRound2(FMul(response[1].subtotal, Amount(10)))

\* the fields of an order body other than its items are valid
OtherFieldsValid(body) ==
  /\ body.shipping.email.local # "" /\ body.shipping.email.domain # ""
  /\ \A f \in {"subtotal", "tax", "total"} : body[f] # Absent /\ body[f][1] >= 0
  /\ body.status = Absent \/ body.status[1][1] = "string"

\* C5: an order request with an empty item list and otherwise valid fields is
\* not rejected; once the store has taken the document there is exactly one
\* document for it and the response is subtotal 0, tax 0, total 0, "pending".
C5_EmptyOrderAccepted ==
  \A r \in Reqs :
    (IsOrder(r) /\ Answered(r) /\ request[r].body.items = <<>>
       /\ OtherFieldsValid(request[r].body)) =>
      /\ response[r].code # 422
      /\ StoreAnswers =>
           /\ response[r].code = 200
           /\ Carries(response[r], FZero, FZero, FZero)
           /\ response[r].status = "pending"
           /\ Cardinality(DocsOf(r)) = 1
           /\ \A d \in DocsOf(r) : d.items = <<>> /\ Carries(d, FZero, FZero, FZero)

C5_Witness ==
  \E r \in Reqs :
    /\ Accepted(r)
    /\ request[r].body.items = <<>>
    /\ response[r].total = FZero
    /\ Cardinality(DocsOf(r)) = 1

(***************************************************************************)
(* C2: what the client sends for subtotal, tax, total and status.          *)
(***************************************************************************)
SameOrder(r1, r2) ==
  /\ IsOrder(r1) /\ Answered(r1)
  /\ IsOrder(r2) /\ Answered(r2)
  /\ request[r1].body.items = request[r2].body.items
  /\ request[r1].body.shipping = request[r2].body.shipping

SameOutcome(r1, r2) ==
  /\ response[r1].code = response[r2].code
  /\ response[r1].code = 200 =>
       /\ Carries(response[r1], response[r2].subtotal, response[r2].tax,
                  response[r2].total)
       /\ response[r1].status = "pending" /\ response[r2].status = "pending"
       /\ DocsOf(r1) # {} /\ DocsOf(r2) # {}
       /\ \A d1 \in DocsOf(r1), d2 \in DocsOf(r2) :
            /\ WithoutField(d1, "_id") = WithoutField(d2, "_id")
            /\ d1.status = "pending"

\* C2 as stated: two order requests with the same items and shipping have the
\* same outcome whatever subtotal, tax, total and status the clients sent.
C2_ClientValuesIgnored ==
  \A r1, r2 \in Reqs : SameOrder(r1, r2) => SameOutcome(r1, r2)

\* the client's subtotal, tax and total are present and >= 0
ClientTotalsPass(body) ==
  \A f \in {"subtotal", "tax", "total"} : body[f] # Absent /\ body[f][1] >= 0

\* the client's status is left out or is a JSON string
ClientStatusPasses(body) ==
  body.status = Absent \/ body.status[1][1] = "string"

\* C2, amended: two order requests with the same items and shipping, each
\* sending a subtotal, a tax and a total that are present and >= 0 and a
\* status that is left out or is a string, have the same outcome whatever
\* those values are: the same response code, the same subtotal, tax and
\* total, status "pending", and the same values in the stored documents.
C2_ValidClientValuesIgnored ==
  \A r1, r2 \in Reqs :
    (SameOrder(r1, r2)
       /\ ClientTotalsPass(request[r1].body) /\ ClientStatusPasses(request[r1].body)
       /\ ClientTotalsPass(request[r2].body) /\ ClientStatusPasses(request[r2].body))
      => SameOutcome(r1, r2)

\* C2, amended on the numbers alone: fails, since a status that is null or a
\* number is answered 422
C2_AnyStatusIgnored ==
  \A r1, r2 \in Reqs :
    (SameOrder(r1, r2) /\ ClientTotalsPass(request[r1].body)
       /\ ClientTotalsPass(request[r2].body)) => SameOutcome(r1, r2)

C2_Witness ==
  \E r1, r2 \in Reqs :
    /\ Accepted(r1) /\ Accepted(r2)
    /\ request[r1].body.items = ExampleItems
    /\ request[r2].body.items = ExampleItems
    /\ request[r1].body.subtotal # request[r2].body.subtotal
    /\ request[r1].body.status # request[r2].body.status
    /\ response[r1].total = response[r2].total

(***************************************************************************)
(* C3 and C9: seeding.                                                     *)
(***************************************************************************)
Starts(r, kind) == pc[r] = "idle" /\ pc'[r] # "idle" /\ request'[r].kind = kind

InsertedBy(r) == {d \in product : d["_id"][23] = r}

\* the collection is what one completed seeding of an empty collection left
SeededOnce ==
  \E q \in Reqs :
    /\ request[q].kind = "seed" /\ Answered(q)
    /\ response[q].code = 200 /\ response[q].message = "Seeded"
    /\ product = InsertedBy(q)

\* C3: a POST /seed that finds the product collection non-empty inserts
\* nothing, leaves the collection as it is and returns its current count;
\* after one completed seeding of an empty collection that count is 4.
C3_SeedOnNonEmptyIsNoOp ==
  [][\A r \in Reqs :
       (Starts(r, "seed") /\ StoreAnswers /\ product # {}) =>
         /\ product' = product
         /\ pc'[r] = "done"
         /\ InsertedBy(r)' = {}
         /\ response'[r].code = 200
         /\ response'[r].message = "Products already exist"
         /\ response'[r].count = Cardinality(product)
         /\ SeededOnce => response'[r].count = 4]_vars

C3_Witness ==
  \E r1, r2 \in Reqs :
    /\ request[r1].kind = "seed" /\ Answered(r1)
    /\ response[r1].code = 200 /\ response[r1].message = "Seeded"
    /\ request[r2].kind = "seed" /\ Answered(r2)
    /\ response[r2].code = 200 /\ response[r2].message = "Products already exist"
    /\ response[r2].count = 4
    /\ Cardinality(product) = 4

\* C9: under any interleaving of POST /seed requests the product collection
\* never holds more than the 4 sample products and never a sample twice.
C9_NeverMoreThanTheSamples ==
  /\ Cardinality(product) <= Len(samples)
  /\ \A d1, d2 \in product : d1.title = d2.title => d1 = d2

(***************************************************************************)
(* C4 and C7: GET /products/{id} and the database handle.                  *)
(***************************************************************************)
Stored(id) == \E d \in product : d["_id"] = ObjectId(id)

\* C4: with the database configured, GET /products/{id} returns 400 exactly
\* when the identifier is malformed, 404 when it is well-formed and no product
\* has it, and the product when one has it.
C4_BadRequestExactlyWhenMalformed ==
  [][\A r \in Reqs :
       (Starts(r, "get") /\ db) =>
         LET id == request'[r].product_id
         IN  /\ response'[r].code = 400 <=> ~ObjectIdValid(id)
             /\ (ObjectIdValid(id) /\ ~Stored(id)) => response'[r].code = 404
             /\ (ObjectIdValid(id) /\ Stored(id)) =>
                  /\ response'[r].code = 200
                  /\ response'[r].product.id = StrOfObjectId(ObjectId(id))]_vars

\* C7: without a database handle POST /seed and GET /products/{id} answer 500
\* at once, whatever the identifier, and no document is ever inserted.
C7_NoHandleGives500 ==
  ~db =>
    /\ product = {}
    /\ order = {}
    /\ \A r \in Reqs :
         request[r].kind \in {"seed", "get"} =>
           /\ Answered(r)
           /\ response[r].code = 500
           /\ response[r].detail = "Database not configured"

C7_Witness ==
  /\ ~db
  /\ \E r1, r2 \in Reqs :
       /\ request[r1].kind = "seed" /\ response[r1].code = 500
       /\ request[r2].kind = "get" /\ ~ObjectIdValid(request[r2].product_id)
       /\ response[r2].code = 500

(***************************************************************************)
(* C6: GET /products.                                                      *)
(***************************************************************************)
Listed(resp) == {resp.products[i] : i \in 1..Len(resp.products)}
AllProducts == {serialize_doc(d) : d \in product}
InCategory(value) == {serialize_doc(d) : d \in {x \in product : x.category = value}}

ListsExactly(resp, docs) ==
  resp.code = 200 /\ Listed(resp) = docs /\ Len(resp.products) = Cardinality(docs)

\* C6 as stated: for every category value supplied the result is exactly the
\* products of that category, and all products only when none is supplied.
C6_EveryCategoryValueFilters ==
  [][\A r \in Reqs :
       (Starts(r, "list") /\ StoreAnswers) =>
         LET category == request'[r].category
         IN  IF category = Absent
             THEN ListsExactly(response'[r], AllProducts)
             ELSE ListsExactly(response'[r], InCategory(category[1]))]_vars

\* C6, amended: for every non-empty category value supplied the result is
\* exactly the products of that category (none: an empty sequence, no error);
\* when no category or the empty string is supplied, all products are returned.
C6_NonEmptyCategoryFilters ==
  [][\A r \in Reqs :
       (Starts(r, "list") /\ StoreAnswers) =>
         LET category == request'[r].category
         IN  IF category = Absent \/ category = Given("")
             THEN ListsExactly(response'[r], AllProducts)
             ELSE ListsExactly(response'[r], InCategory(category[1]))]_vars

C6_Witness ==
  \E r1, r2, r3 \in Reqs :
    /\ request[r1].kind = "list" /\ request[r1].category = Given("Home")
    /\ response[r1].code = 200 /\ Len(response[r1].products) = 2
    /\ \A i \in 1..2 : response[r1].products[i].category = "Home"
    /\ request[r2].kind = "list" /\ request[r2].category = Given("")
    /\ response[r2].code = 200 /\ Len(response[r2].products) = 4
    /\ request[r3].kind = "seed"

(***************************************************************************)
(* C10: order requests under interleaving.                                 *)
(***************************************************************************)
\* the handler of order request r takes a step
OrderStep(r) == request'[r].kind = "order" /\ pc'[r] # pc[r]

\* the document an accepted request r must have stored, from its own body
OwnDocument(r, d) ==
  LET body == request[r].body
      u    == Unrounded(r)
      tax  == PyRound2(FMul(u, Amount(10)))
  IN  /\ Len(d.items) = Len(body.items)
      /\ \A i \in 1..Len(body.items) :
           /\ d.items[i].price = FromDecimal(body.items[i].price, 3)
           /\ d.items[i].quantity = body.items[i].quantity
      /\ d.shipping = body.shipping
      /\ Carries(d, PyRound2(u), tax, PyRound2(FAdd(u, tax)))
      /\ Carries(response[r], d.subtotal, d.tax, d.total)

OrdersAreOwn ==
  /\ \A r \in Reqs :
       Accepted(r) => Cardinality(DocsOf(r)) = 1 /\ \A d \in DocsOf(r) : OwnDocument(r, d)
  /\ Cardinality(order) = Cardinality({r \in Reqs : Accepted(r)})

\* C10: under any interleaving of order requests with each other and with
\* seed, list and get requests, a step of an order handler leaves the product
\* collection alone, no step removes or changes a stored order, a request
\* inserts exactly one document, when it is accepted, and that document and
\* the response carry the values computed from the request's own items.
C10_OrdersIndependent ==
  /\ []OrdersAreOwn
  /\ [][/\ order \subseteq order'
        /\ \A r \in Reqs :
             OrderStep(r) =>
               /\ product' = product
               /\ Cardinality(order' \ order) = (IF Accepted(r)' THEN 1 ELSE 0)]_vars

C10_Witness ==
  \E r1, r2, r3 \in Reqs :
    /\ r1 < r2
    /\ Accepted(r1) /\ Accepted(r2)
    /\ request[r1].body.items = ExampleItems /\ request[r2].body.items = <<>>
    /\ \E d \in DocsOf(r1) : d.total = Amount(5773)
    /\ \E d \in DocsOf(r2) : d.total = FZero
    /\ request[r3].kind = "seed" /\ pc[r3] = "seeding"

====
